---- MODULE Spec2Model ----
(***************************************************************************)
(* search.py: build one HTTP request, fetch the result page, decode it as  *)
(* UTF-8, capture the result__snippet anchors with a regular expression,   *)
(* delete the tags of each captured fragment and print it; print the       *)
(* exception on failure.                                                   *)
(*                                                                         *)
(* Text is a sequence of one-character strings, bytes are integers.        *)
(***************************************************************************)
EXTENDS Integers, Sequences, FiniteSets, TLC

VARIABLES pc, req, requests, raw, html, snippets, idx, exc, stdout, stderr,
          exitCode, encoding

vars == <<pc, req, requests, raw, html, snippets, idx, exc, stdout, stderr,
          exitCode, encoding>>

(***************************************************************************)
(* Bounds of the model.                                                    *)
(***************************************************************************)
\* longest page assembled from the markup pieces below
MaxPieces == 5
\* longest anchor content spelled character by character
MaxFragLen == 7

(***************************************************************************)
(* Characters.                                                             *)
(***************************************************************************)
LT == "<"
GT == ">"
NL == "\n"
\* U+00E9, the one non-ASCII character of the model's pages
EAcute == "U+00E9"

Printable ==
  <<" ", "!", "\"", "#", "$", "%", "&", "'", "(", ")", "*", "+", ",", "-", ".", "/",
    "0", "1", "2", "3", "4", "5", "6", "7", "8", "9", ":", ";", "<", "=", ">", "?",
    "@", "A", "B", "C", "D", "E", "F", "G", "H", "I", "J", "K", "L", "M", "N", "O",
    "P", "Q", "R", "S", "T", "U", "V", "W", "X", "Y", "Z", "[", "\\", "]", "^", "_",
    "U+0060", "a", "b", "c", "d", "e", "f", "g", "h", "i", "j", "k", "l", "m", "n", "o",
    "p", "q", "r", "s", "t", "u", "v", "w", "x", "y", "z", "{", "|", "}", "~">>

CodePoints == {10} \cup (32..126) \cup {233}

\* the character of a code point
Chr(cp) ==
  IF cp = 10 THEN NL
  ELSE IF cp = 233 THEN EAcute
  ELSE Printable[cp - 31]

Alphabet == {Chr(cp) : cp \in CodePoints}

OrdOf == [c \in Alphabet |-> CHOOSE cp \in CodePoints : Chr(cp) = c]

\* the code point of a character
Ord(c) == OrdOf[c]

LowerOf ==
  [c \in Alphabet |->
     LET cp == OrdOf[c] IN IF cp >= 65 /\ cp <= 90 THEN Chr(cp + 32) ELSE c]

\* re.IGNORECASE compares characters by their lower-case form
Lower(c) == LowerOf[c]

Min(S) == CHOOSE x \in S : \A y \in S : x <= y

(***************************************************************************)
(* The two regular expressions.                                            *)
(***************************************************************************)
\* the literal head of the first pattern: <a class="result__snippet
SnippetOpen ==
  <<"<", "a", " ", "c", "l", "a", "s", "s", "=", "\"", "r", "e", "s", "u", "l",
    "t", "_", "_", "s", "n", "i", "p", "p", "e", "t">>

\* the literal tail of the first pattern: </a>
AnchorClose == <<"<", "/", "a", ">">>

\* does the literal lit stand in s at position p, letters compared caselessly
LitAt(lit, s, p) ==
  /\ p + Len(lit) - 1 <= Len(s)
  /\ \A k \in 1..Len(lit) : Lower(s[p + k - 1]) = Lower(lit[k])

\* the first position q >= p of s holding the character c, 0 when there is none
FirstChar(c, s, p) ==
  LET S == {q \in p..Len(s) : s[q] = c} IN IF S = {} THEN 0 ELSE Min(S)

\* the first position q >= p of s where the literal lit stands, 0 when none
FirstLit(lit, s, p) ==
  LET S == {q \in p..Len(s) : LitAt(lit, s, q)} IN IF S = {} THEN 0 ELSE Min(S)

NoMatch == [ok |-> FALSE, start |-> 0, from |-> 0, to |-> 0, end |-> 0]

\* the pattern with a greedy group, (.*) in place of (.*?): the content runs
\* to the last </a> of the text
MatchAtGreedy(s, p) ==
  IF ~LitAt(SnippetOpen, s, p) THEN NoMatch
  ELSE LET gt == FirstChar(GT, s, p + Len(SnippetOpen)) IN
       IF gt = 0 THEN NoMatch
       ELSE LET S == {q \in (gt + 1)..Len(s) : LitAt(AnchorClose, s, q)} IN
            IF S = {} THEN NoMatch
            ELSE LET cl == CHOOSE q \in S : \A r \in S : r <= q IN
                 [ok |-> TRUE, start |-> p, from |-> gt + 1, to |-> cl - 1,
                  end |-> cl + Len(AnchorClose) - 1]

\* the pattern with an optional end, (?:</a>|$): an anchor that is never
\* closed matches to the end of the text
MatchAtOpenEnded(s, p) ==
  IF ~LitAt(SnippetOpen, s, p) THEN NoMatch
  ELSE LET gt == FirstChar(GT, s, p + Len(SnippetOpen)) IN
       IF gt = 0 THEN NoMatch
       ELSE LET cl == FirstLit(AnchorClose, s, gt + 1) IN
            IF cl = 0
            THEN [ok |-> TRUE, start |-> p, from |-> gt + 1, to |-> Len(s),
                  end |-> Len(s)]
            ELSE [ok |-> TRUE, start |-> p, from |-> gt + 1, to |-> cl - 1,
                  end |-> cl + Len(AnchorClose) - 1]

\* <a class="result__snippet[^>]*>(.*?)</a> tried at position p of s:
\* [^>]* runs to the first '>', the lazy group to the first </a> after it
MatchAt(s, p) ==
  IF ~LitAt(SnippetOpen, s, p) THEN NoMatch
  ELSE LET gt == FirstChar(GT, s, p + Len(SnippetOpen)) IN
       IF gt = 0 THEN NoMatch
       ELSE LET cl == FirstLit(AnchorClose, s, gt + 1) IN
            IF cl = 0 THEN NoMatch
            ELSE [ok |-> TRUE, start |-> p, from |-> gt + 1, to |-> cl - 1,
                  end |-> cl + Len(AnchorClose) - 1]

\* the leftmost non-overlapping matches of the first pattern from position p
\* on: the scan moves to the first position where the pattern matches and
\* goes on behind that match
RECURSIVE Scan(_, _)
Scan(s, p) ==
  LET S == {q \in p..Len(s) : MatchAt(s, q).ok} IN
  IF S = {} THEN <<>>
  ELSE LET m == MatchAt(s, Min(S)) IN <<m>> \o Scan(s, m.end + 1)

Matches(s) == Scan(s, 1)

\* the matches listed last first
Reversed(ms) == [k \in 1..Len(ms) |-> ms[Len(ms) + 1 - k]]

\* the order in which findall lists the matches
ResultOrder(ms) == ms

\* re.findall(pattern, html, re.IGNORECASE | re.DOTALL): the captured groups
FindAll(s) ==
  LET ms == ResultOrder(Matches(s)) IN
  [k \in 1..Len(ms) |-> SubSeq(s, ms[k].from, ms[k].to)]

\* where the tag <[^>]+> starting at the '<' of position p ends, 0 when the
\* pattern does not match there
TagEnd(s, p) ==
  LET gt == FirstChar(GT, s, p + 1) IN IF gt >= p + 2 THEN gt ELSE 0

\* s from position p on with every leftmost non-overlapping tag deleted
RECURSIVE StripFrom(_, _)
StripFrom(s, p) ==
  LET S == {q \in p..Len(s) : s[q] = LT /\ TagEnd(s, q) # 0} IN
  IF S = {} THEN SubSeq(s, p, Len(s))
  ELSE SubSeq(s, p, Min(S) - 1) \o StripFrom(s, TagEnd(s, Min(S)) + 1)

\* re.sub with count=1: only the first tag is deleted
SubOnce(s) ==
  LET S == {q \in 1..Len(s) : s[q] = LT /\ TagEnd(s, q) # 0} IN
  IF S = {} THEN s
  ELSE SubSeq(s, 1, Min(S) - 1) \o SubSeq(s, TagEnd(s, Min(S)) + 1, Len(s))

\* re.sub(r'<[^>]+>', '', snip)
Sub(s) == StripFrom(s, 1)

(***************************************************************************)
(* UTF-8, for the one- and two-byte sequences the pages are made of.        *)
(***************************************************************************)
\* the concatenation of a sequence of sequences
RECURSIVE Concat(_)
Concat(ss) ==
  IF Len(ss) = 0 THEN <<>>
  ELSE IF Len(ss) = 1 THEN ss[1]
  ELSE LET h == Len(ss) \div 2 IN
       Concat(SubSeq(ss, 1, h)) \o Concat(SubSeq(ss, h + 1, Len(ss)))

\* the bytes a server sends for a text
Utf8Encode(t) ==
  Concat([k \in 1..Len(t) |->
            LET cp == Ord(t[k]) IN
            IF cp < 128 THEN <<cp>> ELSE <<192 + (cp \div 64), 128 + (cp % 64)>>])

IsLead(b) == b >= 194 /\ b <= 223
IsContinuation(b) == b >= 128 /\ b <= 191

\* is the byte at position p of b part of a well-formed sequence: an ASCII
\* byte, a lead byte with its continuation byte, or that continuation byte
WellFormedAt(b, p) ==
  \/ b[p] < 128
  \/ IsLead(b[p]) /\ p < Len(b) /\ IsContinuation(b[p + 1])
  \/ IsContinuation(b[p]) /\ p > 1 /\ IsLead(b[p - 1])

\* the character that starts at position p
CharAt(b, p) ==
  IF b[p] < 128 THEN Chr(b[p]) ELSE Chr((b[p] - 192) * 64 + (b[p + 1] - 128))

\* bytes.decode('utf-8'), strict: the text, or the first byte that cannot be
\* decoded, its position counted from 0, and why
Utf8Decode(b) ==
  LET S == {q \in 1..Len(b) : ~WellFormedAt(b, q)} IN
  IF S = {}
  THEN [ok |-> TRUE,
        text |-> Concat([q \in 1..Len(b) |->
                           IF IsContinuation(b[q]) THEN <<>> ELSE <<CharAt(b, q)>>])]
  ELSE LET q == Min(S) IN
       [ok |-> FALSE, byte |-> b[q], pos |-> q - 1,
        reason |-> IF ~IsLead(b[q]) THEN "invalid start byte"
                   ELSE IF q = Len(b) THEN "unexpected end of data"
                   ELSE "invalid continuation byte"]

(***************************************************************************)
(* Exceptions and their str().                                             *)
(***************************************************************************)
NoExc == [type |-> "None", line |-> 0, msg |-> <<>>]

\* the statements of the program, by source line
LineRequest == 5
LineFetch == 10
LinePrint == 13
\* the lines the try statement covers
TryFirst == 10
TryLast == 13

\* the classes "except Exception" matches, among those the model raises
ExceptionClasses ==
  {"MemoryError", "URLError", "HTTPError", "UnicodeDecodeError", "UnicodeEncodeError"}

MemoryError(line) == [type |-> "MemoryError", line |-> line, msg |-> <<>>]

\* what urlopen raises in the model
NetworkErrors ==
  { [type |-> "URLError", line |-> LineFetch,
     msg |-> <<"<urlopen error ", "[Errno 111] Connection refused", ">">>],
    [type |-> "URLError", line |-> LineFetch,
     msg |-> <<"<urlopen error ", "[Errno -2] Name or service not known", ">">>],
    [type |-> "HTTPError", line |-> LineFetch,
     msg |-> <<"HTTP Error ", "403", ": ", "Forbidden">>] }

HexDigits ==
  <<"0", "1", "2", "3", "4", "5", "6", "7", "8", "9", "a", "b", "c", "d", "e", "f">>

\* a byte or code point below 256 as two hexadecimal digits
Hex(n) == <<HexDigits[(n \div 16) + 1], HexDigits[(n % 16) + 1]>>

UnicodeDecodeError(d) ==
  [type |-> "UnicodeDecodeError", line |-> LineFetch,
   msg |-> <<"'utf-8' codec can't decode byte 0x">> \o Hex(d.byte)
             \o <<" in position ", ToString(d.pos), ": ", d.reason>>]

UnicodeEncodeError(c, pos) ==
  [type |-> "UnicodeEncodeError", line |-> LinePrint,
   msg |-> <<"'ascii' codec can't encode character '\\x">> \o Hex(Ord(c))
             \o <<"' in position ", ToString(pos), ": ordinal not in range(128)">>]

\* str(e)
Str(e) == e.msg

\* a try statement that opens one statement late, behind the fetch
InTryBehindFetch(line) == line > TryFirst /\ line <= TryLast

\* is an exception raised at this line inside the try statement
InTry(line) == line >= TryFirst /\ line <= TryLast

\* does the except clause of the program take the exception
Handles(e) == InTry(e.line) /\ e.type \in ExceptionClasses

(***************************************************************************)
(* The pages the search engine may answer with.                            *)
(***************************************************************************)
SeqsUpTo(S, n) == UNION {[1..k -> S] : k \in 0..n}

\* markup pieces, as the bytes on the wire
Pieces ==
  { Utf8Encode(SnippetOpen \o <<"\"", ">">>),
    Utf8Encode(<<"<", "/", "A", ">">>),
    Utf8Encode(<<"<", "b", ">", "x">>),
    Utf8Encode(<<NL>>),
    Utf8Encode(<<EAcute>>) }

PieceBodies == {Concat(ps) : ps \in SeqsUpTo(Pieces, MaxPieces)}

\* one anchor whose attributes and content are spelled character by character
CharBodies ==
  {Utf8Encode(SnippetOpen \o f \o AnchorClose) : f \in SeqsUpTo({LT, GT, "x"}, MaxFragLen)}

\* <a class="result__snippet" h>Hello <b>world</b></a>, twice
HelloAnchor ==
  SnippetOpen \o <<"\"", " ", "h", ">">>
    \o <<"H", "e", "l", "l", "o", " ", "<", "b", ">", "w", "o", "r", "l", "d",
         "<", "/", "b", ">">>
    \o AnchorClose

HelloBody == Utf8Encode(HelloAnchor \o <<NL>> \o HelloAnchor)

\* bytes that are not UTF-8: a stray 0xff, a cut two-byte sequence, a lead
\* byte followed by an ASCII byte
BadBodies == {<<120, 255>>, <<120, 195>>, <<195, 120>>}

Bodies == PieceBodies \cup CharBodies \cup {HelloBody} \cup BadBodies

(***************************************************************************)
(* The program.                                                            *)
(***************************************************************************)
\* a name not yet bound
Unbound == <<"(unbound)">>
UnboundBytes == <<-1>>

\* urllib.request.Request(url, headers={'User-Agent': 'Mozilla/5.0'})
TheRequest ==
  [url |-> "https://duckduckgo.com/html/?q=site:developer.apple.com+CIFormat+RGBAh",
   headers |-> [UserAgent |-> "Mozilla/5.0"]]

\* sys.stdout.encoding
Encodings == {"utf-8", "ascii"}

Init ==
  /\ pc = "request"
  /\ req = "(unbound)"
  /\ requests = 0
  /\ raw = UnboundBytes
  /\ html = Unbound
  /\ snippets = Unbound
  /\ idx = 0
  /\ exc = NoExc
  /\ stdout = <<>>
  /\ stderr = <<>>
  /\ exitCode = -1
  /\ encoding \in Encodings

\* an exception leaves the statement that raised it: to the except clause
\* when that takes it, else out of the program with a traceback
Raise(e) ==
  /\ exc' = e
  /\ IF Handles(e)
     THEN /\ pc' = "except"
          /\ UNCHANGED <<stderr, exitCode>>
     ELSE /\ pc' = "done"
          /\ stderr' = stderr \o <<"Traceback (most recent call last):", e.type>>
          /\ exitCode' = 1

\* can sys.stdout encode the character
Encodable(c) == encoding = "utf-8" \/ c \notin Alphabet \/ Ord(c) < 128

\* the first position of text that sys.stdout cannot encode, 0 when none
FirstBad(text) ==
  LET S == {k \in 1..Len(text) : ~Encodable(text[k])} IN IF S = {} THEN 0 ELSE Min(S)

\* print(text, end=''): no line end is written
PrintedNoNewline(out, text) == out \o text

\* print(text): what standard output holds afterwards
Printed(out, text) == out \o text \o <<NL>>

\* lines 5-8: req = urllib.request.Request(...)
Request ==
  /\ pc = "request"
  /\ \/ /\ req' = TheRequest
        /\ pc' = "fetch"
        /\ UNCHANGED <<exc, stderr, exitCode>>
     \/ /\ Raise(MemoryError(LineRequest))
        /\ UNCHANGED req
  /\ UNCHANGED <<requests, raw, html, snippets, idx, stdout, encoding>>

\* line 10: urllib.request.urlopen(req).read()
Urlopen ==
  /\ pc = "fetch"
  /\ requests' = requests + 1
  /\ \/ \E body \in Bodies :
          /\ raw' = body
          /\ pc' = "decode"
          /\ UNCHANGED <<exc, stderr, exitCode>>
     \/ \E e \in NetworkErrors :
          /\ Raise(e)
          /\ UNCHANGED raw
  /\ UNCHANGED <<req, html, snippets, idx, stdout, encoding>>

\* line 10: html = ....decode('utf-8')
Decode ==
  /\ pc = "decode"
  /\ LET d == Utf8Decode(raw) IN
     IF d.ok
     THEN /\ html' = d.text
          /\ pc' = "findall"
          /\ UNCHANGED <<exc, stderr, exitCode>>
     ELSE /\ Raise(UnicodeDecodeError(d))
          /\ UNCHANGED html
  /\ UNCHANGED <<req, requests, raw, snippets, idx, stdout, encoding>>

\* line 11: snippets = re.findall(...)
FindAllSnippets ==
  /\ pc = "findall"
  /\ snippets' = FindAll(html)
  /\ idx' = 1
  /\ pc' = "loop"
  /\ UNCHANGED <<req, requests, raw, html, exc, stdout, stderr, exitCode, encoding>>

\* lines 12-13: one turn of the loop, print(re.sub(r'<[^>]+>', '', snip))
PrintSnippet ==
  /\ pc = "loop"
  /\ idx <= Len(snippets)
  /\ LET text == Sub(snippets[idx])
         bad == FirstBad(text) IN
     IF bad = 0
     THEN /\ stdout' = Printed(stdout, text)
          /\ idx' = idx + 1
          /\ UNCHANGED <<pc, exc, stderr, exitCode>>
     ELSE /\ Raise(UnicodeEncodeError(text[bad], bad - 1))
          /\ UNCHANGED <<stdout, idx>>
  /\ UNCHANGED <<req, requests, raw, html, snippets, encoding>>

\* the loop is the last statement of the try body, and the try statement the
\* last of the program
AfterLoop == "done"

\* line 12: the list is exhausted, the program ends
LoopEnd ==
  /\ pc = "loop"
  /\ idx > Len(snippets)
  /\ pc' = AfterLoop
  /\ exitCode' = 0
  /\ UNCHANGED <<req, requests, raw, html, snippets, idx, exc, stdout, stderr, encoding>>

\* a program that tries again after a failure
AfterExceptRetry == "fetch"

\* nothing follows print(e): the program ends
AfterExcept == "done"

\* lines 14-15: except Exception as e: print(e)
Except ==
  /\ pc = "except"
  /\ stdout' = Printed(stdout, Str(exc))
  /\ pc' = AfterExcept
  /\ exitCode' = 0
  /\ UNCHANGED <<req, requests, raw, html, snippets, idx, exc, stderr, encoding>>

Next ==
  \/ Request
  \/ Urlopen
  \/ Decode
  \/ FindAllSnippets
  \/ PrintSnippet
  \/ LoopEnd
  \/ Except

Spec == Init /\ [][Next]_vars

(***************************************************************************)
(* Vocabulary of the properties.                                           *)
(***************************************************************************)
\* how many lines standard output holds
LineCount(out) == Cardinality({k \in 1..Len(out) : out[k] = NL})

\* the one line print(e) writes
FailureLine(e) == Str(e) \o <<NL>>

Fetched == raw # UnboundBytes
Decoded == html # Unbound
Extracted == snippets # Unbound
Ended == pc = "done"

\* the content of the anchor match m of the page
Content(m) == SubSeq(html, m.from, m.to)

\* the output of printing the cleaned content of the first k of the anchor
\* matches ms, in document order
CleanedLines(ms, k) == Concat([j \in 1..k |-> Sub(Content(ms[j])) \o <<NL>>])

\* the page holds an opening <a class="result__snippet ...>, and a </a> after it
HasAnchor ==
  \E p \in 1..Len(html) :
    /\ LitAt(SnippetOpen, html, p)
    /\ \E q \in (p + Len(SnippetOpen))..Len(html) :
         /\ html[q] = GT
         /\ \E r \in (q + 1)..Len(html) : LitAt(AnchorClose, html, r)

(***************************************************************************)
(* C1: every failure of request construction, of the network call, of      *)
(* decoding or of extraction is taken by the except clause, which writes   *)
(* its description as one line of standard output; none leaves the program *)
(* uncaught.  Fails: the Request is built before the try statement.        *)
(***************************************************************************)
C1_EveryFailureHandled ==
  (Ended /\ exc # NoExc /\ exc.line \in {LineRequest, LineFetch})
    => /\ stderr = <<>>
       /\ stdout = FailureLine(exc)

(***************************************************************************)
(* C2: when the program ends it ends with exit code 0, whichever stage     *)
(* failed.  Fails with C1: an exception of the Request constructor ends    *)
(* the program with a traceback and exit code 1.                           *)
(***************************************************************************)
C2_AlwaysExitsZero ==
  /\ Ended => exitCode = 0
  /\ ~Ended => ENABLED Next

(***************************************************************************)
(* C7: if the network call raises, the program prints exactly one line,    *)
(* the str() of that error, prints no snippet, and exits with code 0.      *)
(***************************************************************************)
C7_NetworkErrorOneLine ==
  (exc \in NetworkErrors /\ pc # "except")
    => /\ Ended
       /\ stdout = FailureLine(exc)
       /\ LineCount(stdout) = 1
       /\ stderr = <<>>
       /\ exitCode = 0
       /\ ~Fetched /\ ~Extracted

C7_Witness ==
  /\ Ended
  /\ exc \in NetworkErrors
  /\ requests = 1

(***************************************************************************)
(* C10: the request is issued at most once, in the fetch stage only; the   *)
(* stages are passed in order (request, fetch, decode, findall, loop) with *)
(* the except clause as the only way out early, and nothing follows the    *)
(* except clause or the end: no retry, no return to an earlier stage.      *)
(***************************************************************************)
Rank(p) ==
  CASE p = "request" -> 1
    [] p = "fetch" -> 2
    [] p = "decode" -> 3
    [] p = "findall" -> 4
    [] p = "loop" -> 5
    [] p = "except" -> 6
    [] p = "done" -> 7

Fragments == IF Extracted THEN Len(snippets) ELSE 0

\* the output of printing the first k extracted fragments, cleaned
PrintedLines(k) == Concat([j \in 1..k |-> Sub(snippets[j]) \o <<NL>>])

\* the except clause took the exception
Caught == exc # NoExc /\ stderr = <<>>

(***************************************************************************)
(* C3: at exit standard output is either the cleaned snippet lines, one    *)
(* line per extracted fragment, and no failure description, or exactly one *)
(* line that is a failure description; never snippet lines followed by a   *)
(* failure description, never two lines for one fragment.  As stated it    *)
(* fails: a print that fails in the loop leaves the lines printed so far   *)
(* before the failure description, and a fragment holding a line end       *)
(* spans several lines.                                                    *)
(***************************************************************************)
C3_TwoShapes ==
  Ended =>
    \/ /\ stdout = PrintedLines(Fragments)
       /\ LineCount(stdout) = Fragments
    \/ /\ exc # NoExc
       /\ stdout = FailureLine(exc)

(***************************************************************************)
(* C3 amended: at exit standard output is the cleaned text of the first k  *)
(* extracted fragments, each written by one print and closed by a line     *)
(* end, followed by at most one failure description, which is one line and *)
(* the last; all fragments are there unless a failure description follows. *)
(***************************************************************************)
C3_SnippetsThenAtMostOneFailure ==
  Ended =>
    /\ \E k \in 0..Fragments :
         /\ stdout = PrintedLines(k) \o (IF Caught THEN FailureLine(exc) ELSE <<>>)
         /\ exc = NoExc => k = Fragments
         /\ k > 0 => k = idx - 1
    /\ LineCount(FailureLine(exc)) = 1

C3_Witness ==
  /\ Ended
  /\ exc.type = "UnicodeEncodeError"
  /\ idx >= 2
  /\ stdout = PrintedLines(idx - 1) \o FailureLine(exc)

(***************************************************************************)
(* C4: the cleaned text of every captured fragment holds no '<' and no     *)
(* '>'.  As stated it fails: a '>' outside a tag, a '<' that no '>'        *)
(* follows, and the empty pair "<>" are not matched by <[^>]+> and stay.   *)
(***************************************************************************)
NoBrackets(t) == \A p \in 1..Len(t) : t[p] \notin {LT, GT}

C4_NoAngleBrackets ==
  (pc = "loop" /\ idx <= Len(snippets)) => NoBrackets(Sub(snippets[idx]))

\* no substring of t is a tag: '<', one or more characters other than '>', '>'
NoTagLeft(t) ==
  \A p \in 1..Len(t) : \A q \in (p + 2)..Len(t) :
    (t[p] = LT /\ t[q] = GT) => \E r \in (p + 1)..(q - 1) : t[r] = GT

\* every angle bracket of t belongs to a tag: a '<', characters other than
\* angle brackets, at least one, and a '>'
TagsOnly(t) ==
  /\ \A p \in 1..Len(t) : t[p] = LT =>
       \E q \in (p + 2)..Len(t) :
         t[q] = GT /\ \A r \in (p + 1)..(q - 1) : t[r] \notin {LT, GT}
  /\ \A q \in 1..Len(t) : t[q] = GT =>
       \E p \in 1..(q - 2) :
         t[p] = LT /\ \A r \in (p + 1)..(q - 1) : t[r] \notin {LT, GT}

(***************************************************************************)
(* C4 amended: the cleaned text of every captured fragment holds no tag    *)
(* any more (no '<', one or more characters other than '>', '>'), and it   *)
(* holds no '<' and no '>' at all when every angle bracket of the fragment *)
(* belongs to a tag.                                                       *)
(***************************************************************************)
C4_NoTagLeft ==
  (pc = "loop" /\ idx <= Len(snippets)) =>
    /\ NoTagLeft(Sub(snippets[idx]))
    /\ TagsOnly(snippets[idx]) => NoBrackets(Sub(snippets[idx]))

C4_Witness ==
  /\ pc = "loop"
  /\ idx <= Len(snippets)
  /\ TagsOnly(snippets[idx])
  /\ Cardinality({p \in 1..Len(snippets[idx]) : snippets[idx][p] = LT}) >= 2
  /\ Sub(snippets[idx]) # <<>>

IsAnchor(m) ==
  /\ LitAt(SnippetOpen, html, m.start)
  /\ html[m.from - 1] = GT
  /\ \A q \in (m.start + Len(SnippetOpen))..(m.from - 2) : html[q] # GT
  /\ \A q \in m.from..m.to : ~LitAt(AnchorClose, html, q)
  /\ LitAt(AnchorClose, html, m.to + 1)
  /\ m.end = m.to + Len(AnchorClose)

C6_OrderPreserved ==
  /\ pc \in {"request", "fetch", "decode", "findall"} => stdout = <<>>
  /\ (Extracted /\ exc = NoExc) =>
       LET ms == Matches(html) IN
       /\ stdout = CleanedLines(ms, idx - 1)
       /\ \A i \in 1..Len(ms) : \A j \in 1..Len(ms) :
            i < j => ms[i].end < ms[j].start

C6_Witness ==
  /\ Ended
  /\ exc = NoExc
  /\ Len(snippets) >= 2
  /\ Sub(snippets[1]) # Sub(snippets[2])
  /\ stdout # <<>>

(***************************************************************************)
(* C8: whatever has been printed, something has been printed only if the   *)
(* request succeeded and the page held at least one matching fragment.  As *)
(* stated it fails: after a failed request the failure description has     *)
(* been printed.                                                           *)
(***************************************************************************)
Matched == Fetched /\ Decoded /\ HasAnchor

C8_PrintedOnlyIfMatched == stdout # <<>> => Matched

(***************************************************************************)
(* C8 amended: a snippet line has been printed only if the request         *)
(* succeeded and the page held at least one matching fragment; when the    *)
(* request failed or the page held none, the one thing that can have been  *)
(* printed is the failure description.                                     *)
(***************************************************************************)
C8_SnippetLinesOnlyIfMatched ==
  /\ idx >= 2 => Matched
  /\ Fragments > 0 => Matched
  /\ (stdout # <<>> /\ ~Matched) => (exc # NoExc /\ stdout = FailureLine(exc))

C8_Witness ==
  /\ Ended
  /\ stdout # <<>>
  /\ Matched
  /\ exc = NoExc

====
